---- MODULE Spec2Model ----
(***************************************************************************)
(* MedTech image processing backend (src/backend/app.py).                  *)
(*                                                                         *)
(* POST /process: validate phase and media type, read the upload, decode   *)
(* it, apply the filter selected by the phase, encode as PNG, respond.     *)
(* Several requests are in flight at once; each runs process_image.        *)
(*                                                                         *)
(* The third-party image functions (PIL, cv2) are represented by           *)
(* deterministic functions on a small symbolic domain:                     *)
(*   upload bytes     a sequence of naturals <<signature, sample>>         *)
(*   decoded buffer   <<"bgr", sample>>                                    *)
(*   filtered buffer  <<"clahe", sample>> or <<"blur", sample>>            *)
(*   PNG bytes        <<"png", filter, sample>>                            *)
(* Designated samples make cv2 raise in the filter or make imencode fail.  *)
(***************************************************************************)
EXTENDS Naturals, Integers, Sequences, FiniteSets, TLC

\* ------------------------------------------------------------- bounds
\* Requests in flight at the same time.
NumRequests == 2

Requests == 1..NumRequests

\* ------------------------------------------------------ input domains
\* Declared media types: an image type, a non-image type, and Python's None
\* (an upload part that declares no Content-Type).
ImageType == "image/png"
OtherType == "application/pdf"
None == "none"

\* First byte of the PNG signature; anything else is not a known container.
PngSignature == 137
JunkByte == 0

\* The pixel content of the well-formed images a client uploads.
GoodSamples == {1, 2}
\* A buffer on which the cv2 filter raises.
UnfilterableSample == 3
\* A buffer whose filtered form cv2.imencode cannot encode.
UnencodableSample == 4

Phases == {"arterial", "venous", "capillary"}
FileNames == {"a.png", "b.jpg"}

UploadFile(fn, ct, data) == [filename |-> fn, content_type |-> ct, data |-> data]

\* The uploads a client sends: a well-formed PNG under each filename, the
\* other well-formed images, the same bytes under a non-image or missing
\* media type, and the malformed or faulting payloads.
Uploads ==
       {UploadFile(fn, ImageType, <<PngSignature, 1>>) : fn \in FileNames}
  \cup {UploadFile("a.png", ImageType, <<PngSignature, s>>) : s \in GoodSamples}
  \cup {UploadFile("a.png", ct, <<PngSignature, 1>>) : ct \in {OtherType, None}}
  \cup {UploadFile("a.png", ImageType, d) :
          d \in { <<>>,                                 \* zero-byte
                  <<JunkByte, 1>>,                      \* corrupt
                  <<PngSignature, UnfilterableSample>>,
                  <<PngSignature, UnencodableSample>> }}

\* ------------------------------------------------------------- state
VARIABLES
  request,        \* request[r]: the multipart form (image: UploadFile, phase)
  pc,             \* pc[r]: where process_image stands for request r
  file_bytes,     \* local of process_image
  img,            \* local of process_image
  processed_img,  \* local of process_image
  output_bytes,   \* local of process_image
  response,       \* what the client of r receives
  log,            \* log[r]: the records written through `logger` for r
  calls           \* calls[r]: the steps started for r, in order

vars == <<request, pc, file_bytes, img, processed_img, output_bytes,
          response, log, calls>>

\* An unbound local / no response yet.
Unbound == <<"unbound">>
NoBytes == <<-1>>
NoResponse == [status |-> 0, media_type |-> "", content |-> Unbound,
               disposition |-> "", phase |-> "", detail |-> ""]

Append1(f, r, x) == [f EXCEPT ![r] = Append(@, x)]

\* ---------------------------------------------------------- logging
\* logger.info / logger.error: one record, with the values the message
\* interpolates ("-" / -1 where the message has no such value).
LogRecord(level, msg, phase, filename, size) ==
  [level |-> level, msg |-> msg, phase |-> phase, filename |-> filename,
   size |-> size]
Info(msg) == LogRecord("INFO", msg, "-", "-", -1)
Error(msg) == LogRecord("ERROR", msg, "-", "-", -1)

\* ----------------------------------------------------- responses
\* raise HTTPException(status_code, detail): FastAPI answers with JSON.
HTTPException(status, detail) ==
  [status |-> status, media_type |-> "application/json", content |-> Unbound,
   disposition |-> "", phase |-> "", detail |-> detail]

\* An exception that leaves process_image uncaught: the server answers 500.
ServerError ==
  [status |-> 500, media_type |-> "text/plain", content |-> Unbound,
   disposition |-> "", phase |-> "", detail |-> "Internal Server Error"]

\* Variant: the suggested filename is the original one, without the prefix.
SuccessResponse_RawName(out, filename, phase) ==
  [status |-> 200, media_type |-> "image/png", content |-> out,
   disposition |-> "inline; filename=" \o filename,
   phase |-> phase, detail |-> ""]

\* Response(content=..., media_type="image/png", headers={...})
SuccessResponse(out, filename, phase) ==
  [status |-> 200, media_type |-> "image/png", content |-> out,
   disposition |-> "inline; filename=processed_" \o filename,
   phase |-> phase, detail |-> ""]

\* ------------------------------------------------ pure functions
\* Variant: only an empty phase is rejected.
PhaseValid_NonEmpty(phase) == phase # ""

\* phase not in ['arterial', 'venous']
PhaseValid(phase) == phase \in {"arterial", "venous"}

\* str.startswith
StartsWith(s, prefix) ==
  /\ Len(s) >= Len(prefix)
  /\ SubSeq(s, 1, Len(prefix)) = prefix

\* image.content_type.startswith('image/')
ContentTypeIsImage(ct) == StartsWith(ct, "image/")

\* read_image_file: Image.open / convert / np.array / cvtColor, any
\* exception becoming HTTPException(400).
read_image_file(b) ==
  IF Len(b) = 0 \/ b[1] # PngSignature
    THEN [ok |-> FALSE, img |-> Unbound]     \* Image.open cannot identify
  ELSE IF Len(b) < 2
    THEN [ok |-> FALSE, img |-> Unbound]     \* truncated: load fails
  ELSE [ok |-> TRUE, img |-> <<"bgr", b[2]>>]

\* Variant: the CLAHE object is kept between requests and carries state
\* from the buffers it has already processed.
increase_contrast_Stateful(i) ==
  IF i[2] = UnfilterableSample
    THEN [ok |-> FALSE, img |-> Unbound]
    ELSE [ok |-> TRUE,
          img |-> <<"clahe",
                    i[2] + Cardinality({s \in Requests : processed_img[s] # Unbound})>>]

\* increase_contrast: CLAHE on the L channel.
increase_contrast(i) ==
  IF i[2] = UnfilterableSample
    THEN [ok |-> FALSE, img |-> Unbound]
    ELSE [ok |-> TRUE, img |-> <<"clahe", i[2]>>]

\* apply_gaussian_blur: 15x15 Gaussian blur.
apply_gaussian_blur(i) ==
  IF i[2] = UnfilterableSample
    THEN [ok |-> FALSE, img |-> Unbound]
    ELSE [ok |-> TRUE, img |-> <<"blur", i[2]>>]

\* Variant: the two branches are exchanged.
FilterFor_Swapped(phase) ==
  IF phase = "arterial" THEN "apply_gaussian_blur" ELSE "increase_contrast"

\* if phase == 'arterial': ... else: ...
FilterFor(phase) ==
  IF phase = "arterial" THEN "increase_contrast" ELSE "apply_gaussian_blur"

ApplyFilter(phase, i) ==
  IF FilterFor(phase) = "increase_contrast"
    THEN increase_contrast(i) ELSE apply_gaussian_blur(i)

\* cv2.imencode('.png', img): "ok", "nosuccess" (success flag false) or
\* "raises" (cv2.error).
imencode(p) ==
  IF p[2] # UnencodableSample THEN "ok"
  ELSE IF p[1] = "clahe" THEN "nosuccess" ELSE "raises"

\* Variant: the success flag of imencode is not tested.
encode_image_IgnoresFlag(p) ==
  IF imencode(p) # "raises"
    THEN [ok |-> TRUE, bytes |-> <<"png", p[1], p[2]>>]
    ELSE [ok |-> FALSE, bytes |-> Unbound]

\* encode_image
encode_image(p) ==
  IF imencode(p) = "ok"
    THEN [ok |-> TRUE, bytes |-> <<"png", p[1], p[2]>>]
    ELSE [ok |-> FALSE, bytes |-> Unbound]

\* ------------------------------------------------------------- Init
Init ==
  /\ request \in [Requests -> [image : Uploads, phase : Phases]]
  /\ pc = [r \in Requests |-> "validating"]
  /\ file_bytes = [r \in Requests |-> NoBytes]
  /\ img = [r \in Requests |-> Unbound]
  /\ processed_img = [r \in Requests |-> Unbound]
  /\ output_bytes = [r \in Requests |-> Unbound]
  /\ response = [r \in Requests |-> NoResponse]
  /\ log = [r \in Requests |-> <<>>]
  /\ calls = [r \in Requests |-> <<>>]

\* ---------------------------------------------------------- actions
\* Leave process_image with an error response.
Fail(r, resp) ==
  /\ pc' = [pc EXCEPT ![r] = "failed"]
  /\ response' = [response EXCEPT ![r] = resp]

\* Lines 174-188: log the request, validate the phase, then the media type.
Validate(r) ==
  /\ pc[r] = "validating"
  /\ log' = Append1(log, r,
        LogRecord("INFO", "Processing request received", request[r].phase, "-", -1))
  /\ IF ~PhaseValid(request[r].phase)
       THEN Fail(r, HTTPException(400, "Invalid phase. Must be 'arterial' or 'venous'"))
     ELSE IF request[r].image.content_type = None
       THEN Fail(r, ServerError)   \* AttributeError outside the try block
     ELSE IF ~ContentTypeIsImage(request[r].image.content_type)
       THEN Fail(r, HTTPException(400, "File must be an image (JPG/PNG)"))
     ELSE /\ pc' = [pc EXCEPT ![r] = "reading"]
          /\ UNCHANGED response
  /\ UNCHANGED <<request, file_bytes, img, processed_img, output_bytes, calls>>

\* Variant: the upload is read without the "File received" record.
ReadUpload_NoLog(r) ==
  /\ pc[r] = "reading"
  /\ calls' = Append1(calls, r, "read")
  /\ file_bytes' = [file_bytes EXCEPT ![r] = request[r].image.data]
  /\ pc' = [pc EXCEPT ![r] = "decoding"]
  /\ UNCHANGED <<request, img, processed_img, output_bytes, response, log>>

\* Lines 192-193: await image.read(), log filename and size.
ReadUpload(r) ==
  /\ pc[r] = "reading"
  /\ calls' = Append1(calls, r, "read")
  /\ file_bytes' = [file_bytes EXCEPT ![r] = request[r].image.data]
  /\ log' = Append1(log, r,
        LogRecord("INFO", "File received", "-", request[r].image.filename,
                  Len(request[r].image.data)))
  /\ pc' = [pc EXCEPT ![r] = "decoding"]
  /\ UNCHANGED <<request, img, processed_img, output_bytes, response>>

\* Variant: without the `except HTTPException: raise` clause the decode
\* error falls into `except Exception` and becomes a 500.
Decode_Reclassified(r) ==
  /\ pc[r] = "decoding"
  /\ calls' = Append1(calls, r, "read_image_file")
  /\ LET res == read_image_file(file_bytes[r]) IN
       IF res.ok
         THEN /\ img' = [img EXCEPT ![r] = res.img]
              /\ log' = Append1(log, r, Info("Image loaded successfully"))
              /\ pc' = [pc EXCEPT ![r] = "filtering"]
              /\ UNCHANGED response
         ELSE /\ log' = [log EXCEPT ![r] = @ \o
                           << Error("Error reading image file"),
                              Error("Unexpected error processing image") >>]
              /\ Fail(r, HTTPException(500, "Error processing image"))
              /\ UNCHANGED img
  /\ UNCHANGED <<request, file_bytes, processed_img, output_bytes>>

\* Variant: a failed decode is retried once from the read.
Decode_Retry(r) ==
  /\ pc[r] = "decoding"
  /\ calls' = Append1(calls, r, "read_image_file")
  /\ LET res == read_image_file(file_bytes[r]) IN
       IF res.ok
         THEN /\ img' = [img EXCEPT ![r] = res.img]
              /\ log' = Append1(log, r, Info("Image loaded successfully"))
              /\ pc' = [pc EXCEPT ![r] = "filtering"]
              /\ UNCHANGED response
         ELSE /\ log' = Append1(log, r, Error("Error reading image file"))
              /\ UNCHANGED img
              /\ IF Len(calls[r]) < 3
                   THEN pc' = [pc EXCEPT ![r] = "reading"] /\ UNCHANGED response
                   ELSE Fail(r, HTTPException(400, "Invalid image file"))
  /\ UNCHANGED <<request, file_bytes, processed_img, output_bytes>>

\* Line 196 and read_image_file (103-121): decode; any failure is logged
\* and raised as HTTPException(400), which `except HTTPException` re-raises.
Decode(r) ==
  /\ pc[r] = "decoding"
  /\ calls' = Append1(calls, r, "read_image_file")
  /\ LET res == read_image_file(file_bytes[r]) IN
       IF res.ok
         THEN /\ img' = [img EXCEPT ![r] = res.img]
              /\ log' = Append1(log, r, Info("Image loaded successfully"))
              /\ pc' = [pc EXCEPT ![r] = "filtering"]
              /\ UNCHANGED response
         ELSE /\ log' = Append1(log, r, Error("Error reading image file"))
              /\ Fail(r, HTTPException(400, "Invalid image file"))
              /\ UNCHANGED img
  /\ UNCHANGED <<request, file_bytes, processed_img, output_bytes>>

\* The log records of one filter call (65/68, 86/89) and of its caller
\* (201/204, or 222 when the exception reaches `except Exception`).
FilterLog(name, ok) ==
  IF name = "increase_contrast"
    THEN IF ok THEN << Info("Contrast enhancement applied successfully"),
                       Info("Arterial phase processing completed") >>
               ELSE << Error("Error in contrast enhancement"),
                       Error("Unexpected error processing image") >>
    ELSE IF ok THEN << Info("Gaussian blur applied successfully"),
                       Info("Venous phase processing completed") >>
               ELSE << Error("Error in Gaussian blur"),
                       Error("Unexpected error processing image") >>

\* Variant: the decoded buffer is kept in a module-level variable, so the
\* filter works on whichever buffer was stored there last.
Filter_SharedBuffer(r) ==
  /\ pc[r] = "filtering"
  /\ \E s \in Requests :
       /\ img[s] # Unbound
       /\ LET name == FilterFor(request[r].phase)
              res == ApplyFilter(request[r].phase, img[s])
          IN /\ calls' = Append1(calls, r, name)
             /\ log' = [log EXCEPT ![r] = @ \o FilterLog(name, res.ok)]
             /\ IF res.ok
                  THEN /\ processed_img' = [processed_img EXCEPT ![r] = res.img]
                       /\ pc' = [pc EXCEPT ![r] = "encoding"]
                       /\ UNCHANGED response
                  ELSE /\ Fail(r, HTTPException(500, "Error processing image"))
                       /\ UNCHANGED processed_img
  /\ UNCHANGED <<request, file_bytes, img, output_bytes>>

\* Lines 198-204: dispatch on the phase; a filter exception becomes a 500.
Filter(r) ==
  /\ pc[r] = "filtering"
  /\ LET name == FilterFor(request[r].phase)
         res == ApplyFilter(request[r].phase, img[r])
     IN /\ calls' = Append1(calls, r, name)
        /\ log' = [log EXCEPT ![r] = @ \o FilterLog(name, res.ok)]
        /\ IF res.ok
             THEN /\ processed_img' = [processed_img EXCEPT ![r] = res.img]
                  /\ pc' = [pc EXCEPT ![r] = "encoding"]
                  /\ UNCHANGED response
             ELSE /\ Fail(r, HTTPException(500, "Error processing image"))
                  /\ UNCHANGED processed_img
  /\ UNCHANGED <<request, file_bytes, img, output_bytes>>

\* Line 207 and encode_image (134-143): a failure is logged in encode_image,
\* re-raised, logged again at 222 and becomes a 500.
Encode(r) ==
  /\ pc[r] = "encoding"
  /\ calls' = Append1(calls, r, "encode_image")
  /\ LET res == encode_image(processed_img[r]) IN
       IF res.ok
         THEN /\ output_bytes' = [output_bytes EXCEPT ![r] = res.bytes]
              /\ pc' = [pc EXCEPT ![r] = "responding"]
              /\ UNCHANGED <<response, log>>
         ELSE /\ log' = [log EXCEPT ![r] = @ \o
                           << Error("Error encoding image"),
                              Error("Unexpected error processing image") >>]
              /\ Fail(r, HTTPException(500, "Error processing image"))
              /\ UNCHANGED output_bytes
  /\ UNCHANGED <<request, file_bytes, img, processed_img>>

\* Lines 210-217: return the PNG with its two headers.
Respond(r) ==
  /\ pc[r] = "responding"
  /\ calls' = Append1(calls, r, "Response")
  /\ response' = [response EXCEPT ![r] =
        SuccessResponse(output_bytes[r], request[r].image.filename,
                        request[r].phase)]
  /\ pc' = [pc EXCEPT ![r] = "done"]
  /\ UNCHANGED <<request, file_bytes, img, processed_img, output_bytes, log>>

Step(r) ==
  \/ Validate(r)
  \/ ReadUpload(r)
  \/ Decode(r)
  \/ Filter(r)
  \/ Encode(r)
  \/ Respond(r)

Next == \E r \in Requests : Step(r)

Spec == Init /\ [][Next]_vars

\* ------------------------------------------------------------ helpers
Terminal(r) == pc[r] \in {"done", "failed"}
Count(r, name) == Cardinality({i \in DOMAIN calls[r] : calls[r][i] = name})
Started(r, name) == Count(r, name) > 0
Filters == {"increase_contrast", "apply_gaussian_blur"}
Logged(r, P(_)) == \E i \in DOMAIN log[r] : P(log[r][i])
DeclaresImage(r) ==
  /\ request[r].image.content_type # None
  /\ Len(request[r].image.content_type) >= 6
  /\ SubSeq(request[r].image.content_type, 1, 6) = "image/"
TwoPhases == {"arterial", "venous"}
Undecodable == { <<>>, <<JunkByte, 1>> }

\* ------------------------------------------------------------- claims

\* C1: a request whose phase is neither 'arterial' nor 'venous' ends in a
\* 400 and never starts read, decode, filter or encode, whatever it uploads.
C1_InvalidPhaseRejected ==
  \A r \in Requests :
    request[r].phase \notin TwoPhases =>
      /\ calls[r] = <<>>
      /\ file_bytes[r] = NoBytes /\ img[r] = Unbound
      /\ pc[r] \in {"validating", "failed"}
      /\ pc[r] = "failed" => response[r].status = 400

C1_Witness ==
  \E r \in Requests :
    /\ request[r].phase = "capillary"
    /\ request[r].image.content_type = "image/png"
    /\ request[r].image.data = <<PngSignature, 1>>
    /\ pc[r] = "failed"

\* C2: a request with a valid phase whose upload declares no image media
\* type (another type, or none at all) ends in a 400 and its bytes are never
\* read, decoded, filtered or encoded.
C2_NonImageRejected ==
  \A r \in Requests :
    (request[r].phase \in TwoPhases /\ ~DeclaresImage(r)) =>
      /\ calls[r] = <<>>
      /\ pc[r] \in {"validating", "failed"}
      /\ pc[r] = "failed" => response[r].status = 400

\* C3: a request that passes validation with undecodable bytes gets the 400
\* raised by read_image_file, no filter or encode step, and no PNG body.
C3_DecodeErrorIs400 ==
  \A r \in Requests :
    ( /\ request[r].phase \in TwoPhases
      /\ DeclaresImage(r)
      /\ request[r].image.data \in Undecodable
      /\ pc[r] \notin {"validating", "reading", "decoding"} ) =>
        /\ pc[r] = "failed"
        /\ response[r].status = 400
        /\ response[r].media_type # "image/png"
        /\ response[r].content = Unbound
        /\ \A n \in Filters \cup {"encode_image", "Response"} : ~Started(r, n)

C3_Witness ==
  \E r, s \in Requests :
    /\ request[r].image.data = <<>> /\ Started(r, "read_image_file")
    /\ pc[r] = "failed"
    /\ request[s].image.data = <<JunkByte, 1>> /\ Started(s, "read_image_file")
    /\ pc[s] = "failed"

\* C4: a request that reaches filtering has phase 'arterial' or 'venous';
\* exactly one filter is called, once: increase_contrast iff arterial,
\* apply_gaussian_blur iff venous.
C4_DispatchExclusive ==
  \A r \in Requests :
    /\ (pc[r] = "filtering" \/ \E n \in Filters : Started(r, n)) =>
          request[r].phase \in TwoPhases
    /\ Count(r, "increase_contrast") + Count(r, "apply_gaussian_blur") <= 1
    /\ pc[r] \in {"encoding", "responding", "done"} =>
          /\ Count(r, "increase_contrast") + Count(r, "apply_gaussian_blur") = 1
          /\ Started(r, "increase_contrast") <=> request[r].phase = "arterial"
          /\ Started(r, "apply_gaussian_blur") <=> request[r].phase = "venous"
    /\ Started(r, "increase_contrast") => request[r].phase = "arterial"
    /\ Started(r, "apply_gaussian_blur") => request[r].phase = "venous"

C4_Witness ==
  \E r, s \in Requests :
    /\ request[r].phase = "arterial" /\ pc[r] = "encoding"
    /\ request[s].phase = "venous" /\ pc[s] = "encoding"

\* C5: a failure in the filter or the encoder is answered with a 500 and a
\* JSON message; PNG content is returned only after decode, filter and
\* encode all succeeded.
C5_InternalFaultIs500 ==
  \A r \in Requests :
    /\ ( /\ pc[r] = "failed"
         /\ calls[r] # <<>>
         /\ calls[r][Len(calls[r])] \in Filters \cup {"encode_image"} ) =>
           /\ response[r].status = 500
           /\ response[r].media_type = "application/json"
           /\ response[r].detail # ""
           /\ response[r].content = Unbound
    /\ (response[r].content # Unbound \/ response[r].media_type = "image/png") =>
           /\ response[r].status = 200
           /\ img[r] # Unbound
           /\ processed_img[r] # Unbound
           /\ imencode(processed_img[r]) = "ok"
           /\ response[r].content = <<"png", processed_img[r][1], processed_img[r][2]>>

C5_Witness ==
  \E r, s \in Requests :
    /\ pc[r] = "failed" /\ Started(r, "encode_image")
    /\ request[r].phase = "arterial"
    /\ pc[s] = "failed" /\ Started(s, "apply_gaussian_blur")
    /\ ~Started(s, "encode_image")

\* C6: a successful response has status 200, content type image/png, the
\* encoder's output as body, the filename 'processed_' + original filename,
\* and the phase of the same request, whose filter was the one applied.
C6_SuccessResponseShape ==
  \A r \in Requests :
    /\ pc[r] = "done" <=> response[r].status = 200
    /\ response[r].status = 200 =>
         /\ response[r].media_type = "image/png"
         /\ response[r].content = output_bytes[r]
         /\ output_bytes[r] =
              <<"png",
                IF request[r].phase = "arterial" THEN "clahe" ELSE "blur",
                request[r].image.data[2]>>
         /\ response[r].disposition =
              "inline; filename=" \o ("processed_" \o request[r].image.filename)
         /\ response[r].phase = request[r].phase
         /\ Started(r, IF response[r].phase = "arterial"
                         THEN "increase_contrast" ELSE "apply_gaussian_blur")

C6_Witness ==
  \E r, s \in Requests :
    /\ pc[r] = "done" /\ request[r].phase = "venous"
    /\ request[r].image.filename = "b.jpg"
    /\ pc[s] = "done" /\ request[s].phase = "arterial"
    /\ request[s].image.filename = "a.png"

ProcessAlone(req) ==
  IF req.phase \notin TwoPhases
    THEN HTTPException(400, "Invalid phase. Must be 'arterial' or 'venous'")
  ELSE IF req.image.content_type = None
    THEN ServerError
  ELSE IF ~StartsWith(req.image.content_type, "image/")
    THEN HTTPException(400, "File must be an image (JPG/PNG)")
  ELSE LET d == read_image_file(req.image.data) IN
    IF ~d.ok THEN HTTPException(400, "Invalid image file")
    ELSE LET f == IF req.phase = "arterial" THEN increase_contrast(d.img)
                                             ELSE apply_gaussian_blur(d.img) IN
      IF ~f.ok THEN HTTPException(500, "Error processing image")
      ELSE LET e == encode_image(f.img) IN
        IF ~e.ok THEN HTTPException(500, "Error processing image")
        ELSE SuccessResponse(e.bytes, req.image.filename, req.phase)

\* What request s owns.
Own(s) == <<request[s], pc[s], file_bytes[s], img[s], processed_img[s],
            output_bytes[s], response[s], log[s], calls[s]>>

\* C8: under any interleaving, each request's response is the response it
\* would get alone, its locals hold only its own data, and no step changes
\* what two different requests own.
C8_Independent ==
  /\ [] \A r \in Requests :
          /\ Terminal(r) => response[r] = ProcessAlone(request[r])
          /\ ~Terminal(r) => response[r] = NoResponse
          /\ file_bytes[r] \in {NoBytes, request[r].image.data}
          /\ img[r] # Unbound => img[r] = <<"bgr", request[r].image.data[2]>>
          /\ processed_img[r] # Unbound => processed_img[r][2] = img[r][2]
          /\ output_bytes[r] # Unbound => output_bytes[r][3] = img[r][2]
          /\ response[r].phase \in {"", request[r].phase}
  /\ [][\A r, s \in Requests : r # s => (Own(r)' = Own(r) \/ Own(s)' = Own(s))]_vars

C8_Witness ==
  \E r, s \in Requests :
    /\ r # s
    /\ pc[r] = "done" /\ pc[s] = "done"
    /\ request[r].phase # request[s].phase
    /\ request[r].image.data # request[s].image.data
    /\ request[r].image.filename # request[s].image.filename

\* The stages in order; reading the upload belongs to decoding.
StageNo(p) ==
  CASE p = "validating" -> 1
    [] p = "reading"    -> 2
    [] p = "decoding"   -> 3
    [] p = "filtering"  -> 4
    [] p = "encoding"   -> 5
    [] p = "responding" -> 6
    [] p = "done"       -> 7
    [] p = "failed"     -> 7

\* C9: each request passes once, forwards, through validating, decoding,
\* filtering, encoding, responding; a step either enters the next stage or
\* fails the request, nothing runs after a failure, every stage's operation
\* runs at most once, a request that has not ended can always take its next
\* step, and a request ends either answered with 200 or failed with 400 or
\* 500.
C9_SingleForwardPass ==
  /\ [][\A r \in Requests :
          pc'[r] # pc[r] =>
            /\ ~Terminal(r)
            /\ \/ StageNo(pc'[r]) = StageNo(pc[r]) + 1 /\ pc'[r] # "failed"
               \/ pc'[r] = "failed"]_vars
  /\ [][\A r \in Requests : Terminal(r) => Own(r)' = Own(r)]_vars
  /\ [] \A r \in Requests :
          /\ \A n \in Filters \cup {"read", "read_image_file", "encode_image", "Response"} :
                Count(r, n) <= 1
          /\ ~Terminal(r) => ENABLED Step(r)
          /\ pc[r] = "done" => response[r].status = 200
          /\ pc[r] = "failed" => response[r].status \in {400, 500}
          /\ ~Terminal(r) => response[r].status = 0

C9_Witness ==
  \E r, s \in Requests :
    /\ pc[r] = "done" /\ Len(calls[r]) = 5
    /\ pc[s] = "failed" /\ Len(calls[s]) = 3

IsError(e) == e.level = "ERROR"

\* C10 (as claimed): every request that ends in a 400 or 500 has an error
\* log record, and its log records carry its phase, filename and byte size.
C10_AllFailuresLogged ==
  \A r \in Requests :
    pc[r] = "failed" =>
      /\ \E i \in DOMAIN log[r] : log[r][i].level = "ERROR"
      /\ \E i \in DOMAIN log[r] : log[r][i].phase = request[r].phase
      /\ \E i \in DOMAIN log[r] :
            /\ log[r][i].filename = request[r].image.filename
            /\ log[r][i].size = Len(request[r].image.data)

\* C10 (amended): every request that fails after validation (decode error,
\* filter fault, encode error) has an error log record written before the
\* response, and its records carry its phase, filename and byte size; a
\* request that fails validation has the record carrying its phase only.
C10_ProcessingFailuresLogged ==
  \A r \in Requests :
    /\ (pc[r] = "failed" /\ calls[r] # <<>>) =>
         /\ \E i \in DOMAIN log[r] : log[r][i].level = "ERROR"
         /\ \E i \in DOMAIN log[r] : log[r][i].phase = request[r].phase
         /\ \E i \in DOMAIN log[r] :
               /\ log[r][i].filename = request[r].image.filename
               /\ log[r][i].size = Len(request[r].image.data)
    /\ (pc[r] = "failed" /\ calls[r] = <<>>) =>
         /\ Len(log[r]) = 1
         /\ log[r][1].level = "INFO"
         /\ log[r][1].phase = request[r].phase
         /\ log[r][1].filename = "-" /\ log[r][1].size = -1

C10_Witness ==
  \E r, s \in Requests :
    /\ pc[r] = "failed" /\ Started(r, "encode_image")
    /\ pc[s] = "failed" /\ calls[s] = <<"read", "read_image_file">>
    /\ request[s].image.data = <<>>
====
